---- MODULE Spec2Model ----
(***************************************************************************)
(* Verification model of the Draw.io icon library generator:              *)
(*   src/src/converters/svg_to_drawio.py  (dimension extractor, scaler,    *)
(*                                          folder conversion)             *)
(*   src/src/main.py                      (_safe_filename,                 *)
(*                                          generate_libraries)            *)
(*   src/src/fetchers/{fabric,azure,microsoft365}.py  (get_categories)     *)
(*                                                                         *)
(* Texts are sequences of one-character strings.  Python floats are IEEE   *)
(* binary64 values, modelled exactly as  mant * 2^(-exp)  with the         *)
(* mantissa held as little-endian limbs of LimbBits bits, so that the      *)
(* rounding of  max_size / max(width, height)  and of  width * scale  is   *)
(* the rounding the interpreter performs.                                  *)
(***************************************************************************)
EXTENDS Integers, Sequences, FiniteSets, TLC

VARIABLES
    pc,         \* position of the run being modelled
    svg,        \* the SVG text handed to the converter (abstracted markup)
    max_size,   \* the max_size argument of create_library_entry
    dims,       \* result of get_svg_dimensions: <<width, height>>
    entry,      \* the "w"/"h" fields of the dictionary create_library_entry returns
    name,       \* the category name handed to _safe_filename
    slug,       \* the file name stem _safe_filename returns
    seen,       \* the categories the fetcher has yielded so far, in order
    folder,     \* the sorted *.svg files of the folder being converted
    entries,    \* the entries list of the category or folder last processed
    disk,       \* output path -> the records of the document written there
    stats,      \* the stats dictionary of generate_libraries
    fetcher,    \* which fetcher class the run uses
    fetched,    \* whether fetch() has set _icons_dir
    tree,       \* the extracted directory tree under _icons_dir
    svg_root,   \* the directory _find_svg_root returned
    cats,       \* the categories get_categories has yielded, in order
    outcome,    \* how get_categories ended: "none", "ok" or "error"
    lib_entries,    \* the entries list handed to create_library_xml
    library_xml,    \* the text create_library_xml returns
    xml_content,    \* the text handed to compress_and_encode
    encoded         \* the Base64 text compress_and_encode returns

convVars == <<svg, max_size, dims, entry>>
slugVars == <<name, slug>>
genVars == <<seen, folder, entries, disk, stats>>
fetchVars == <<fetcher, fetched, tree, svg_root, cats, outcome>>
libVars == <<lib_entries, library_xml>>
codecVars == <<xml_content, encoded>>
vars == <<pc, svg, max_size, dims, entry, name, slug,
          seen, folder, entries, disk, stats,
          fetcher, fetched, tree, svg_root, cats, outcome,
          lib_entries, library_xml, xml_content, encoded>>

----------------------------------------------------------------------------
(* Bounds of the model.                                                    *)

\* longest width/height attribute text enumerated
MaxAttrLen == 2
\* largest width/height handed directly to the scaling step
MaxDim == 23
\* largest max_size handed directly to the scaling step
MaxSize == 13
\* longest category name handed directly to _safe_filename
MaxNameLen == 3
\* most categories a fetcher yields in one run
MaxCats == 2
\* most SVG files in one category or folder
MaxFiles == 2
\* most entries in the list handed directly to create_library_xml
MaxEntries == 3
\* longest text handed directly to compress_and_encode
MaxTextLen == 3
\* most SVG files directly inside one directory of a fetched tree
MaxSvg == 1

----------------------------------------------------------------------------
(* IEEE binary64 arithmetic on the values the scaling step produces.       *)

MantBits == 53
LimbBits == 13
Base == 2 ^ LimbBits

Max(a, b) == IF a >= b THEN a ELSE b

RECURSIVE BitLenSmall(_)
BitLenSmall(n) == IF n = 0 THEN 0 ELSE 1 + BitLenSmall(n \div 2)

RECURSIVE StripTop(_)
StripTop(limbs) ==
    IF limbs # <<>> /\ limbs[Len(limbs)] = 0
    THEN StripTop(SubSeq(limbs, 1, Len(limbs) - 1))
    ELSE limbs

BitLen(limbs) ==
    LET t == StripTop(limbs)
    IN  IF t = <<>> THEN 0 ELSE LimbBits * (Len(t) - 1) + BitLenSmall(t[Len(t)])

\* limbs + c, for a small c added at the lowest limb
RECURSIVE AddSmall(_, _)
AddSmall(limbs, c) ==
    IF c = 0 THEN limbs
    ELSE IF limbs = <<>> THEN <<c>>
    ELSE LET t == limbs[1] + c
         IN  <<t % Base>> \o AddSmall(Tail(limbs), t \div Base)

\* limbs * w + c, for small w and c
RECURSIVE MulSmall(_, _, _)
MulSmall(limbs, w, c) ==
    IF limbs = <<>> THEN (IF c = 0 THEN <<>> ELSE <<c>>)
    ELSE LET t == limbs[1] * w + c
         IN  <<t % Base>> \o MulSmall(Tail(limbs), w, t \div Base)

\* n further quotient limbs of the long division by b, remainder rem so far
RECURSIVE LongDiv(_, _, _)
LongDiv(rem, b, n) ==
    IF n = 0 THEN [q |-> <<>>, r |-> rem]
    ELSE LET t    == rem * Base
             rest == LongDiv(t % b, b, n - 1)
         IN  [q |-> Append(rest.q, t \div b), r |-> rest.r]

\* a / b for integers 0 < a < b: the binary64 nearest to the quotient
\* (round half to even), as Python's int / int.
TrueDiv(a, b) ==
    LET k    == CHOOSE i \in 1..31 : a * 2^i >= b /\ a * 2^(i - 1) < b
        e    == (MantBits - 1) + k
        d0   == a * 2^(e % LimbBits)
        ld   == LongDiv(d0 % b, b, e \div LimbBits)
        m    == Append(ld.q, d0 \div b)
        up   == 2 * ld.r > b \/ (2 * ld.r = b /\ m[1] % 2 = 1)
    IN  [mant |-> IF up THEN AddSmall(m, 1) ELSE m, exp |-> e]

\* w * f for an integer w >= 0 and a float f: the exact product rounded to
\* MantBits significant bits (round half to even), as Python's int * float.
FloatMulInt(w, f) ==
    LET p    == MulSmall(f.mant, w, 0)
        d    == BitLen(p) - MantBits
        low  == p[1] % 2^d
        half == 2^(d - 1)
        cut  == [p EXCEPT ![1] = p[1] - low]
        up   == low > half \/ (low = half /\ (p[1] \div 2^d) % 2 = 1)
    IN  [mant |-> IF d <= 0 THEN p
                  ELSE IF up THEN AddSmall(cut, 2^d) ELSE cut,
         exp  |-> f.exp]

RECURSIVE LimbsToInt(_)
LimbsToInt(limbs) ==
    IF limbs = <<>> THEN 0 ELSE limbs[1] + Base * LimbsToInt(Tail(limbs))

\* int(f) for a float f >= 0: truncation toward zero
IntTrunc(f) ==
    LET n    == f.exp \div LimbBits
        high == IF Len(f.mant) <= n THEN <<>>
                ELSE SubSeq(f.mant, n + 1, Len(f.mant))
    IN  LimbsToInt(high) \div 2^(f.exp % LimbBits)

----------------------------------------------------------------------------
(* get_svg_dimensions.                                                     *)

\* fallback width and height
DefaultDim == 48

\* characters the enumerated attribute texts are made of: digits, the
\* decimal point and a unit letter
AttrChars == {"0", "1", "9", ".", "p"}

DigitChars == {"0", "1", "2", "3", "4", "5", "6", "7", "8", "9"}

DigitVal(c) ==
    CASE c = "0" -> 0 [] c = "1" -> 1 [] c = "2" -> 2 [] c = "3" -> 3
      [] c = "4" -> 4 [] c = "5" -> 5 [] c = "6" -> 6 [] c = "7" -> 7
      [] c = "8" -> 8 [] c = "9" -> 9

TextsUpTo(chars, n) == UNION {[1..k -> chars] : k \in 0..n}

\* An SVG text, abstracted to what get_svg_dimensions reads of it: whether
\* ET.fromstring parses it, and the root element's width and height
\* attributes (absent, or any text).
SvgText(parsable, hasWidth, width, hasHeight, height) ==
    [parsable |-> parsable, hasWidth |-> hasWidth, width |-> width,
     hasHeight |-> hasHeight, height |-> height]

Unparsable == SvgText(FALSE, FALSE, <<>>, FALSE, <<>>)

SvgTexts ==
    {Unparsable} \cup
    {SvgText(TRUE, hw, w, hh, h) :
        hw \in BOOLEAN, hh \in BOOLEAN,
        w \in TextsUpTo(AttrChars, MaxAttrLen),
        h \in TextsUpTo(AttrChars, MaxAttrLen)}

\* an absent attribute carries no text
WellFormedSvg(s) ==
    /\ (~s.hasWidth => s.width = <<>>)
    /\ (~s.hasHeight => s.height = <<>>)

\* re.sub(r'[^0-9.]', '', text)
StripUnits(text) == SelectSeq(text, LAMBDA c : c \in DigitChars \cup {"."})

RECURSIVE DecimalValue(_)
DecimalValue(digits) ==
    IF digits = <<>> THEN 0
    ELSE 10 * DecimalValue(SubSeq(digits, 1, Len(digits) - 1))
         + DigitVal(digits[Len(digits)])

DotCount(text) == Len(SelectSeq(text, LAMBDA c : c = "."))

\* float(text) for a text of digits and points: a ValueError unless there
\* is at most one point and at least one digit
FloatParses(text) == DotCount(text) <= 1 /\ Len(text) > DotCount(text)

\* digits before the decimal point
RECURSIVE IntegerPart(_)
IntegerPart(text) ==
    IF text = <<>> \/ text[1] = "." THEN <<>>
    ELSE <<text[1]>> \o IntegerPart(Tail(text))

\* int(float(re.sub(...) or 48)) for one attribute text: ok = FALSE stands
\* for the ValueError float() raises.  (Within MaxAttrLen characters the
\* float is exact, so int() of it is the integer part.)
ParseDimension(text) ==
    LET clean == StripUnits(text)
    IN  IF clean = <<>> THEN [ok |-> TRUE, val |-> DefaultDim]
        ELSE IF ~FloatParses(clean) THEN [ok |-> FALSE, val |-> 0]
        ELSE [ok |-> TRUE, val |-> DecimalValue(IntegerPart(clean))]

\* root.get(name, '48')
AttrOrDefault(has, text) == IF has THEN text ELSE <<"4", "8">>

\* get_svg_dimensions with each attribute falling back on its own when its
\* conversion raises
GetSvgDimensionsPerAttribute(s) ==
    IF ~s.parsable THEN <<DefaultDim, DefaultDim>>
    ELSE LET w == ParseDimension(AttrOrDefault(s.hasWidth, s.width))
             h == ParseDimension(AttrOrDefault(s.hasHeight, s.height))
         IN  <<IF w.ok THEN w.val ELSE DefaultDim,
               IF h.ok THEN h.val ELSE DefaultDim>>

GetSvgDimensions(s) ==
    IF ~s.parsable THEN <<DefaultDim, DefaultDim>>
    ELSE LET w == ParseDimension(AttrOrDefault(s.hasWidth, s.width))
             h == ParseDimension(AttrOrDefault(s.hasHeight, s.height))
         IN  IF w.ok /\ h.ok THEN <<w.val, h.val>>
             ELSE <<DefaultDim, DefaultDim>>

----------------------------------------------------------------------------
(* create_library_entry: the scaling step.                                 *)

\* the scaling step with the test of the height forgotten
ScaleDownWidthOnly(width, height, max) ==
    IF width > max
    THEN LET scale == TrueDiv(max, Max(width, height))
         IN  <<IntTrunc(FloatMulInt(width, scale)),
               IntTrunc(FloatMulInt(height, scale))>>
    ELSE <<width, height>>

\* <<width, height>> after lines 113-117 of svg_to_drawio.py
ScaleDown(width, height, max) ==
    IF width > max \/ height > max
    THEN LET scale == TrueDiv(max, Max(width, height))
         IN  <<IntTrunc(FloatMulInt(width, scale)),
               IntTrunc(FloatMulInt(height, scale))>>
    ELSE <<width, height>>

\* default of the max_size parameter
DefaultMaxSize == 80

\* max_size values the whole conversion is run with
EntryMaxSizes == {1, 5, DefaultMaxSize}

----------------------------------------------------------------------------
(* _safe_filename.                                                         *)

\* characters the enumerated category names are made of
SlugChars == {"a", "B", "1", " ", "-", "&", "+", "!"}

Whitespace == {" "}
LowerLetters == {"a", "b", "c", "d", "e", "g", "n", "o", "r", "t", "y"}

\* str.lower() on one character
LowerChar(c) == CASE c = "A" -> "a" [] c = "B" -> "b" [] OTHER -> c

\* str.isalnum() on one (lower-cased) character
IsAlnum(c) == c \in LowerLetters \cup DigitChars

Lower(text) == [i \in 1..Len(text) |-> LowerChar(text[i])]

RECURSIVE LStrip(_, _)
LStrip(text, chars) ==
    IF text # <<>> /\ text[1] \in chars THEN LStrip(Tail(text), chars) ELSE text

RECURSIVE RStrip(_, _)
RStrip(text, chars) ==
    IF text # <<>> /\ text[Len(text)] \in chars
    THEN RStrip(SubSeq(text, 1, Len(text) - 1), chars)
    ELSE text

\* str.strip(chars)
Strip(text, chars) == RStrip(LStrip(text, chars), chars)

\* str.replace(c, rep) for a one-character c
RECURSIVE Replace(_, _, _)
Replace(text, c, rep) ==
    IF text = <<>> THEN <<>>
    ELSE (IF text[1] = c THEN rep ELSE <<text[1]>>) \o Replace(Tail(text), c, rep)

\* the longest prefix of text free of whitespace
RECURSIVE FirstWord(_)
FirstWord(text) ==
    IF text = <<>> \/ text[1] \in Whitespace THEN <<>>
    ELSE <<text[1]>> \o FirstWord(Tail(text))

\* str.split(): the maximal runs of non-whitespace
RECURSIVE Split(_)
Split(text) ==
    IF text = <<>> THEN <<>>
    ELSE IF text[1] \in Whitespace THEN Split(Tail(text))
    ELSE LET w == FirstWord(text)
         IN  <<w>> \o Split(SubSeq(text, Len(w) + 1, Len(text)))

\* sep.join(words)
RECURSIVE Join(_, _)
Join(words, sep) ==
    IF words = <<>> THEN <<>>
    ELSE IF Len(words) = 1 THEN words[1]
    ELSE words[1] \o sep \o Join(Tail(words), sep)

And == <<"a", "n", "d">>
FallbackSlug == <<"c", "a", "t", "e", "g", "o", "r", "y">>

\* _safe_filename without the trailing  or "category"
SafeFilenameNoFallback(n) ==
    LET s1 == Strip(Lower(n), Whitespace)
        s2 == Replace(Replace(s1, "&", And), "+", And)
        s3 == Join(Split(s2), <<"-">>)
        s4 == SelectSeq(s3, LAMBDA c : IsAlnum(c) \/ c = "-")
    IN  Strip(s4, {"-"})

SafeFilename(n) ==
    LET s1 == Strip(Lower(n), Whitespace)
        s2 == Replace(Replace(s1, "&", And), "+", And)
        s3 == Join(Split(s2), <<"-">>)
        s4 == SelectSeq(s3, LAMBDA c : IsAlnum(c) \/ c = "-")
        s5 == Strip(s4, {"-"})
    IN  IF s5 = <<>> THEN FallbackSlug ELSE s5

NoDims == <<0, 0>>
NoEntry == [w |-> 0, h |-> 0, aspect |-> "none"]

----------------------------------------------------------------------------
(* generate_libraries and convert_svg_folder_to_library.                   *)

\* An SVG file: its path and whether create_library_entry_from_file
\* succeeds on it (read_text raises on an unreadable or undecodable file).
SvgFile(path, readable) == [path |-> path, readable |-> readable]

\* the files of the k-th container (category or folder), one per flag
FilesOf(k, flags) == [i \in 1..Len(flags) |-> SvgFile(<<k, i>>, flags[i])]

\* which files convert: every non-empty pattern up to MaxFiles files
ReadablePatterns == UNION {[1..n -> BOOLEAN] : n \in 1..MaxFiles}

\* category names a fetcher yields; pairwise distinct texts
GenNames == {<<"A", " ", "B">>, <<"a", " ", "b">>, <<"&">>}

\* the record of one converted file (its blob, size and title are fixed
\* by the file; the file's path stands for them)
EntryOfFile(f) == [src |-> f.path, aspect |-> "fixed"]

\* the conversion loop leaving at the first file that fails
RECURSIVE ConvertUntilFailure(_)
ConvertUntilFailure(files) ==
    IF files = <<>> \/ ~files[1].readable THEN <<>>
    ELSE <<EntryOfFile(files[1])>> \o ConvertUntilFailure(Tail(files))

\* for svg_file in files: try: entries.append(...) except Exception: print
RECURSIVE ConvertAll(_)
ConvertAll(files) ==
    IF files = <<>> THEN <<>>
    ELSE (IF files[1].readable THEN <<EntryOfFile(files[1])>> ELSE <<>>)
         \o ConvertAll(Tail(files))

NoStats == [categories |-> 0, icons |-> 0, files |-> <<>>]
NoDisk == <<>>

\* output_path.write_text(library_xml)
WriteText(d, path, doc) == (path :> doc) @@ d

\* the stats update counting the icons but not the category
RecordLibraryIconsOnly(st, path, es) ==
    [categories |-> st.categories,
     icons      |-> st.icons + Len(es),
     files      |-> Append(st.files, path)]

\* main.py lines 62-64: the stats update after a library was written
RecordLibrary(st, path, es) ==
    [categories |-> st.categories + 1,
     icons      |-> st.icons + Len(es),
     files      |-> Append(st.files, path)]

\* path given to convert_svg_folder_to_library
FolderOutput == <<"o", "u", "t">>

ConvIdle ==
    /\ svg = Unparsable /\ max_size = DefaultMaxSize
    /\ dims = NoDims /\ entry = NoEntry

SlugIdle == name = <<>> /\ slug = <<>>

GenIdle ==
    /\ seen = <<>> /\ folder = <<>> /\ entries = <<>>
    /\ disk = NoDisk /\ stats = NoStats

LibIdle == lib_entries = <<>> /\ library_xml = <<>>

CodecIdle == xml_content = <<>> /\ encoded = <<>>

----------------------------------------------------------------------------
(* Directory trees and the fetchers' get_categories.                       *)

Root == <<>>

\* directories a fetched tree may hold, as paths relative to _icons_dir
DirUniverse ==
    {<<"A">>, <<"A", "C">>, <<"A", "D-x">>, <<"A", "C", "E">>,
     <<"A", "C", "F">>, <<"Icons">>, <<"Icons", "C">>}

\* names of the SVG files inside one directory
SvgNames == <<"1.svg", "2.svg", "3.svg", "4.svg">>

Parent(p) == SubSeq(p, 1, Len(p) - 1)
LastPart(p) == p[Len(p)]
IsPrefix(p, q) == Len(p) <= Len(q) /\ SubSeq(q, 1, Len(p)) = p

PrefixClosed(D) == \A d \in D : Len(d) > 1 => Parent(d) \in D

Trees ==
    UNION {{[dirs |-> D, svgs |-> f] : f \in [D \cup {Root} -> 0..MaxSvg]} :
           D \in {X \in SUBSET DirUniverse : PrefixClosed(X)}}

EmptyTree == [dirs |-> {}, svgs |-> [d \in {Root} |-> 0]]

AllDirs(t) == t.dirs \cup {Root}

\* [d for d in dir.iterdir() if d.is_dir()]
SubDirs(t, dir) == {c \in t.dirs : Parent(c) = dir}

\* dir.glob('*.svg')
GlobSvg(t, dir) == {Append(dir, SvgNames[i]) : i \in 1..t.svgs[dir]}

\* dir.rglob('*.svg')
RglobSvg(t, dir) ==
    UNION {GlobSvg(t, d) : d \in {x \in AllDirs(t) : IsPrefix(dir, x)}}

\* order of the path components (code points: digits before letters)
PartRank(part) ==
    CASE part = "1.svg" -> 1 [] part = "2.svg" -> 2 [] part = "3.svg" -> 3
      [] part = "4.svg" -> 4 [] part = "A" -> 11 [] part = "C" -> 12
      [] part = "D-x" -> 13 [] part = "E" -> 14 [] part = "F" -> 15
      [] part = "Icons" -> 16

\* Path.__lt__: component-wise comparison
RECURSIVE PathLess(_, _)
PathLess(p, q) ==
    IF p = <<>> THEN q # <<>>
    ELSE IF q = <<>> THEN FALSE
    ELSE IF p[1] = q[1] THEN PathLess(Tail(p), Tail(q))
    ELSE PartRank(p[1]) < PartRank(q[1])

\* sorted(paths)
RECURSIVE Sorted(_)
Sorted(S) ==
    IF S = {} THEN <<>>
    ELSE LET m == CHOOSE x \in S : \A y \in S \ {x} : PathLess(x, y)
         IN  <<m>> \o Sorted(S \ {m})

\* dir.name.replace('-', ' ').replace('_', ' ')
CleanName(part) == IF part = "D-x" THEN "D x" ELSE part

IconCategory(n, files) == [name |-> n, svg_files |-> files]

\* for category_dir in sorted(svg_root.iterdir()): one category per
\* subdirectory that holds SVG files at any depth (azure.py 140-150,
\* fabric.py 182-192)
RECURSIVE CategoriesOfDirs(_, _)
CategoriesOfDirs(t, sortedDirs) ==
    IF sortedDirs = <<>> THEN <<>>
    ELSE LET category_dir == sortedDirs[1]
             svg_files    == Sorted(RglobSvg(t, category_dir))
         IN  (IF svg_files # <<>>
              THEN <<IconCategory(<<CleanName(LastPart(category_dir))>>, svg_files)>>
              ELSE <<>>)
             \o CategoriesOfDirs(t, Tail(sortedDirs))

(* FabricFetcher *)

\* svg_parents: the immediate parent directories of the SVG files
SvgParents(t) == {d \in AllDirs(t) : t.svgs[d] > 0}

\* depth_to_dirs[d] holding, in place of the ancestors at depth d, the SVG
\* parents that lie at depth d themselves
DepthToDirsLeavesOnly(t, d) == {x \in SvgParents(t) : Len(x) = d + 1}

\* depth_to_dirs[d]: the ancestors at depth d of the SVG parents
DepthToDirs(t, d) ==
    {SubSeq(p, 1, d + 1) : p \in {x \in SvgParents(t) : Len(x) >= d + 1}}

DepthKeys(t) == {d \in 0..Cardinality(t.dirs) : DepthToDirs(t, d) # {}}

\* _find_svg_root always answering _icons_dir once a depth has several
\* directories
FabricSvgRootsAlwaysTop(t) ==
    IF Cardinality(SvgParents(t)) = 1 THEN SvgParents(t) ELSE {Root}

\* the directories _find_svg_root may return on a tree with SVG files
\* (list(dirs_at_depth)[0] is any element of the set)
FabricSvgRoots(t) ==
    IF Cardinality(SvgParents(t)) = 1 THEN SvgParents(t)
    ELSE LET multi == {d \in DepthKeys(t) : Cardinality(DepthToDirs(t, d)) > 1}
         IN  IF multi = {} THEN {Root}
             ELSE LET depth == CHOOSE d \in multi : \A e \in multi : d <= e
                  IN  IF depth = 0 THEN {Root}
                      ELSE {Parent(first_dir) : first_dir \in DepthToDirs(t, depth)}

FabricName == <<"Fabric Icons">>

\* get_categories, lines 173-192, for the svg_root found
FabricCategories(t, root) ==
    LET direct_svgs == Sorted(GlobSvg(t, root))
        subdirs     == SubDirs(t, root)
    IN  IF direct_svgs # <<>> /\ subdirs = {}
        THEN <<IconCategory(FabricName, direct_svgs)>>
        ELSE CategoriesOfDirs(t, Sorted(subdirs))

(* AzureFetcher *)

\* directories named Icons that rglob('*') can meet first: a directory is
\* met before the directories below it
IconsDirs(t) ==
    {d \in t.dirs :
        /\ LastPart(d) = "Icons"
        /\ \A a \in t.dirs : (IsPrefix(a, d) /\ a # d) => LastPart(a) # "Icons"}

\* top-level directories the fallback loop may return: subdirs[0] is any
\* subdirectory, and any() of a non-empty list of paths is true
AzureFallbackRoots(t) ==
    {p \in SubDirs(t, Root) : \E sd \in SubDirs(t, p) : GlobSvg(t, sd) # {}}

\* whether the fallback loop may pass every top-level directory
AzureFallbackMayFail(t) ==
    \A p \in SubDirs(t, Root) :
        SubDirs(t, p) = {} \/ \E sd \in SubDirs(t, p) : GlobSvg(t, sd) = {}

(* Microsoft365Fetcher *)

\* _iter_svg_leaf_dirs: the directories holding SVG files directly, sorted
\* (the order of str(p) and of the components agree on DirUniverse)
SvgLeafDirs(t) == Sorted(SvgParents(t))

\* " / ".join(rel.parts), kept as the list of its pieces
RECURSIVE JoinParts(_)
JoinParts(parts) ==
    IF Len(parts) <= 1 THEN parts
    ELSE <<parts[1], " / ">> \o JoinParts(Tail(parts))

RECURSIVE M365Categories(_, _)
M365Categories(t, category_dirs) ==
    IF category_dirs = <<>> THEN <<>>
    ELSE LET svg_files == Sorted(GlobSvg(t, category_dirs[1]))
         IN  (IF svg_files # <<>>
              THEN <<IconCategory(JoinParts(category_dirs[1]), svg_files)>>
              ELSE <<>>)
             \o M365Categories(t, Tail(category_dirs))

Fetchers == {"azure", "fabric", "microsoft365"}

FetchIdle ==
    /\ fetcher = "fabric" /\ fetched = FALSE /\ tree = EmptyTree
    /\ svg_root = Root /\ cats = <<>> /\ outcome = "none"

----------------------------------------------------------------------------
(* Actions of the fetchers.                                                *)

\* fetch(): download and extract; _icons_dir now names the extracted tree
Fetch ==
    /\ pc = "fetch_start"
    /\ ~fetched
    /\ tree' \in Trees
    /\ fetched' = TRUE
    /\ UNCHANGED <<pc, convVars, slugVars, genVars, libVars, codecVars, fetcher, svg_root, cats, outcome>>

\* get_categories() before fetch(): RuntimeError("Must call fetch() first")
GetCategoriesUnfetched ==
    /\ pc = "fetch_start"
    /\ ~fetched
    /\ outcome' = "error"
    /\ pc' = "cats_done"
    /\ UNCHANGED <<convVars, slugVars, genVars, libVars, codecVars, fetcher, fetched, tree, svg_root, cats>>

\* FabricFetcher.get_categories(), run to exhaustion
GetCategoriesFabric ==
    /\ pc = "fetch_start"
    /\ fetched
    /\ fetcher = "fabric"
    /\ IF RglobSvg(tree, Root) = {}
       THEN /\ outcome' = "error"
            /\ UNCHANGED <<svg_root, cats>>
       ELSE \E r \in FabricSvgRoots(tree) :
                /\ svg_root' = r
                /\ cats' = FabricCategories(tree, r)
                /\ outcome' = "ok"
    /\ pc' = "cats_done"
    /\ UNCHANGED <<convVars, slugVars, genVars, libVars, codecVars, fetcher, fetched, tree>>

\* AzureFetcher.get_categories(), run to exhaustion
GetCategoriesAzure ==
    /\ pc = "fetch_start"
    /\ fetched
    /\ fetcher = "azure"
    /\ \/ \E r \in (IF IconsDirs(tree) # {} THEN IconsDirs(tree)
                     ELSE AzureFallbackRoots(tree)) :
            /\ svg_root' = r
            /\ cats' = CategoriesOfDirs(tree, Sorted(SubDirs(tree, r)))
            /\ outcome' = "ok"
       \/ /\ IconsDirs(tree) = {}
          /\ AzureFallbackMayFail(tree)
          /\ outcome' = "error"
          /\ UNCHANGED <<svg_root, cats>>
    /\ pc' = "cats_done"
    /\ UNCHANGED <<convVars, slugVars, genVars, libVars, codecVars, fetcher, fetched, tree>>

\* Microsoft365Fetcher.get_categories(), run to exhaustion
GetCategoriesM365 ==
    /\ pc = "fetch_start"
    /\ fetched
    /\ fetcher = "microsoft365"
    /\ cats' = M365Categories(tree, SvgLeafDirs(tree))
    /\ outcome' = "ok"
    /\ pc' = "cats_done"
    /\ UNCHANGED <<convVars, slugVars, genVars, libVars, codecVars, fetcher, fetched, tree, svg_root>>

InitFetch ==
    /\ pc = "fetch_start"
    /\ ConvIdle
    /\ SlugIdle
    /\ GenIdle
    /\ LibIdle
    /\ CodecIdle
    /\ fetcher \in Fetchers
    /\ fetched = FALSE
    /\ tree = EmptyTree
    /\ svg_root = Root
    /\ cats = <<>>
    /\ outcome = "none"

NextFetch ==
    \/ Fetch
    \/ GetCategoriesUnfetched
    \/ GetCategoriesFabric
    \/ GetCategoriesAzure
    \/ GetCategoriesM365

SpecFetch == InitFetch /\ [][NextFetch]_vars

----------------------------------------------------------------------------
(* Actions of the per-icon conversion.                                     *)

\* create_library_entry, line 111
GetDimensions ==
    /\ pc = "entry_start"
    /\ dims' = GetSvgDimensions(svg)
    /\ pc' = "dims_done"
    /\ UNCHANGED <<svg, max_size, entry, slugVars, genVars, fetchVars, libVars, codecVars>>

\* create_library_entry, lines 113-131 (the "xml" blob and the title do not
\* depend on the scaling and are left out of the record)
ScaleAndBuild ==
    /\ pc = "dims_done"
    /\ LET scaled == ScaleDown(dims[1], dims[2], max_size)
       IN  entry' = [w |-> scaled[1], h |-> scaled[2], aspect |-> "fixed"]
    /\ pc' = "entry_done"
    /\ UNCHANGED <<svg, max_size, dims, slugVars, genVars, fetchVars, libVars, codecVars>>

\* the conversion of one SVG text
InitEntry ==
    /\ pc = "entry_start"
    /\ svg \in {s \in SvgTexts : WellFormedSvg(s)}
    /\ max_size \in EntryMaxSizes
    /\ dims = NoDims
    /\ entry = NoEntry
    /\ name = <<>>
    /\ slug = <<>>
    /\ GenIdle
    /\ LibIdle
    /\ CodecIdle
    /\ FetchIdle

NextEntry == GetDimensions \/ ScaleAndBuild

SpecEntry == InitEntry /\ [][NextEntry]_vars

\* the scaling step on declared dimensions given as integers (the SVG text
\* that declares them is not enumerated; svg keeps its idle value)
InitScale ==
    /\ pc = "dims_done"
    /\ svg = Unparsable
    /\ max_size \in 1..MaxSize
    /\ dims \in (0..MaxDim) \X (0..MaxDim)
    /\ entry = NoEntry
    /\ name = <<>>
    /\ slug = <<>>
    /\ GenIdle
    /\ LibIdle
    /\ CodecIdle
    /\ FetchIdle

NextScale == ScaleAndBuild

SpecScale == InitScale /\ [][NextScale]_vars

----------------------------------------------------------------------------
(* _safe_filename applied to a category name.                              *)

SafeFilenameCall ==
    /\ pc = "slug_start"
    /\ slug' = SafeFilename(name)
    /\ pc' = "slug_done"
    /\ UNCHANGED <<convVars, name, genVars, fetchVars, libVars, codecVars>>

InitSlug ==
    /\ pc = "slug_start"
    /\ name \in TextsUpTo(SlugChars, MaxNameLen)
    /\ slug = <<>>
    /\ ConvIdle
    /\ GenIdle
    /\ LibIdle
    /\ CodecIdle
    /\ FetchIdle

NextSlug == SafeFilenameCall

SpecSlug == InitSlug /\ [][NextSlug]_vars

----------------------------------------------------------------------------
(* Actions of generate_libraries and convert_svg_folder_to_library.        *)

\* main.py lines 33-44: fetch, make the provider directory, zero the stats
GenerateLibrariesBegin ==
    /\ pc = "start"
    /\ stats' = NoStats
    /\ pc' = "gen_running"
    /\ UNCHANGED <<convVars, slugVars, seen, folder, entries, disk, fetchVars, libVars, codecVars>>

\* main.py lines 46-66: one iteration of the loop over get_categories()
ProcessCategory ==
    /\ pc = "gen_running"
    /\ Len(seen) < MaxCats
    /\ \E n \in GenNames, flags \in ReadablePatterns :
        LET category    == [name |-> n,
                            svg_files |-> FilesOf(Len(seen) + 1, flags)]
            output_path == SafeFilename(category.name)
            es          == ConvertAll(category.svg_files)
        IN  /\ seen' = Append(seen, category)
            /\ entries' = es
            /\ IF es # <<>>
               THEN /\ disk' = WriteText(disk, output_path, es)
                    /\ stats' = RecordLibrary(stats, output_path, es)
               ELSE UNCHANGED <<disk, stats>>
    /\ UNCHANGED <<pc, convVars, slugVars, folder, fetchVars, libVars, codecVars>>

\* main.py line 68: the generator is exhausted, stats is returned
GenerateLibrariesReturn ==
    /\ pc = "gen_running"
    /\ pc' = "gen_done"
    /\ UNCHANGED <<convVars, slugVars, genVars, fetchVars, libVars, codecVars>>

\* svg_to_drawio.py lines 191-212 on a folder with at least one *.svg
ConvertSvgFolderToLibrary ==
    /\ pc = "start"
    /\ \E flags \in ReadablePatterns :
        LET svg_files == FilesOf(0, flags)
        IN  /\ folder' = svg_files
            /\ entries' = ConvertAll(svg_files)
            /\ disk' = WriteText(disk, FolderOutput, ConvertAll(svg_files))
    /\ pc' = "folder_done"
    /\ UNCHANGED <<convVars, slugVars, seen, stats, fetchVars, libVars, codecVars>>

\* svg_to_drawio.py lines 191-194 on a folder without any *.svg
ConvertSvgFolderEmpty ==
    /\ pc = "start"
    /\ pc' = "folder_error"
    /\ UNCHANGED <<convVars, slugVars, genVars, fetchVars, libVars, codecVars>>

InitGen ==
    /\ pc = "start"
    /\ ConvIdle
    /\ SlugIdle
    /\ GenIdle
    /\ LibIdle
    /\ CodecIdle
    /\ FetchIdle

NextGen ==
    \/ GenerateLibrariesBegin
    \/ ProcessCategory
    \/ GenerateLibrariesReturn
    \/ ConvertSvgFolderToLibrary
    \/ ConvertSvgFolderEmpty

SpecGen == InitGen /\ [][NextGen]_vars

----------------------------------------------------------------------------
(* create_library_xml: json.dumps of the entries, wrapped in mxlibrary.    *)

\* one key of an entry dictionary with its value; a value is a text or an
\* integer
StrItem(key, text) == [key |-> key, kind |-> "str", str |-> text, num |-> 0]
IntItem(key, n) == [key |-> key, kind |-> "int", str |-> <<>>, num |-> n]

\* the dictionary create_library_entry returns, as its items in insertion
\* order: xml, w, h, title, aspect
IconRecord(xml, w, h, title) ==
    <<StrItem(<<"x", "m", "l">>, xml),
      IntItem(<<"w">>, w),
      IntItem(<<"h">>, h),
      StrItem(<<"t", "i", "t", "l", "e">>, title),
      StrItem(<<"a", "s", "p", "e", "c", "t">>, <<"f", "i", "x", "e", "d">>)>>

\* the entries enumerated: Base64 payloads, sizes and titles (one title
\* holds a double quote, which json.dumps escapes)
LibRecords ==
    {IconRecord(<<"S", "w", "Q", "A">>, 5, 5, <<"B">>),
     IconRecord(<<"A", "w", "A", "=">>, 48, 7, <<"A", "\"">>),
     IconRecord(<<"S", "w", "Q", "A">>, 5, 80, <<"B">>),
     IconRecord(<<"S", "0", "w", "=">>, 0, 13, <<"C", "\\", "a">>)}

LowerAlphabet ==
    <<"a", "b", "c", "d", "e", "f", "g", "h", "i", "j", "k", "l", "m",
      "n", "o", "p", "q", "r", "s", "t", "u", "v", "w", "x", "y", "z">>

\* ord(c) of a lower-case letter, the order sort_keys compares keys by
CodePoint(c) ==
    96 + (CHOOSE i \in 1..Len(LowerAlphabet) : LowerAlphabet[i] = c)

\* a < b for Python strings: the first differing character decides, a
\* proper prefix is smaller
RECURSIVE StrLess(_, _)
StrLess(a, b) ==
    IF b = <<>> THEN FALSE
    ELSE IF a = <<>> THEN TRUE
    ELSE IF Head(a) = Head(b) THEN StrLess(Tail(a), Tail(b))
    ELSE CodePoint(Head(a)) < CodePoint(Head(b))

\* sort_keys=True: the items of one dictionary ordered by key
RECURSIVE InsertByKey(_, _)
InsertByKey(item, sorted) ==
    IF sorted = <<>> THEN <<item>>
    ELSE IF StrLess(item.key, Head(sorted).key) THEN <<item>> \o sorted
    ELSE <<Head(sorted)>> \o InsertByKey(item, Tail(sorted))

RECURSIVE SortKeys(_)
SortKeys(items) ==
    IF items = <<>> THEN <<>>
    ELSE InsertByKey(items[Len(items)], SortKeys(SubSeq(items, 1, Len(items) - 1)))

DigitChar(d) == <<"0", "1", "2", "3", "4", "5", "6", "7", "8", "9">>[d + 1]

\* json.dumps of a non-negative int
RECURSIVE JsonInt(_)
JsonInt(n) ==
    IF n < 10 THEN <<DigitChar(n)>>
    ELSE JsonInt(n \div 10) \o <<DigitChar(n % 10)>>

\* json.dumps of a str with ensure_ascii=False: quoted, with the double
\* quote and the backslash escaped
RECURSIVE JsonEscape(_)
JsonEscape(text) ==
    IF text = <<>> THEN <<>>
    ELSE (IF Head(text) \in {"\"", "\\"} THEN <<"\\", Head(text)>>
          ELSE <<Head(text)>>) \o JsonEscape(Tail(text))

JsonString(text) == <<"\"">> \o JsonEscape(text) \o <<"\"">>

JsonValue(item) ==
    IF item.kind = "str" THEN JsonString(item.str) ELSE JsonInt(item.num)

\* "key":value with separators=(',', ':')
JsonMember(item) == JsonString(item.key) \o <<":">> \o JsonValue(item)

JsonMembers(items) == [i \in 1..Len(items) |-> JsonMember(items[i])]

JsonObject(items) ==
    <<"{">> \o Join(JsonMembers(SortKeys(items)), <<",">>) \o <<"}">>

\* the array with its objects in the reverse of the list's order
JsonArrayReversed(es) ==
    <<"[">> \o Join([i \in 1..Len(es) |->
                        JsonObject(es[Len(es) + 1 - i])], <<",">>)
            \o <<"]">>

\* json.dumps of the list: its dictionaries in list order
JsonArray(es) ==
    <<"[">> \o Join([i \in 1..Len(es) |-> JsonObject(es[i])], <<",">>)
            \o <<"]">>

OpenTag == <<"<", "m", "x", "l", "i", "b", "r", "a", "r", "y", ">">>
CloseTag == <<"<", "/", "m", "x", "l", "i", "b", "r", "a", "r", "y", ">">>

\* svg_to_drawio.py lines 167-172
CreateLibraryXml(es) == OpenTag \o JsonArray(es) \o CloseTag

\* a call of create_library_xml on the list lib_entries
CreateLibraryXmlCall ==
    /\ pc = "library_start"
    /\ library_xml' = CreateLibraryXml(lib_entries)
    /\ pc' = "library_done"
    /\ UNCHANGED <<convVars, slugVars, genVars, fetchVars, lib_entries, codecVars>>

InitLibrary ==
    /\ pc = "library_start"
    /\ lib_entries \in TextsUpTo(LibRecords, MaxEntries)
    /\ library_xml = <<>>
    /\ ConvIdle
    /\ SlugIdle
    /\ GenIdle
    /\ CodecIdle
    /\ FetchIdle

NextLibrary == CreateLibraryXmlCall

SpecLibrary == InitLibrary /\ [][NextLibrary]_vars

----------------------------------------------------------------------------
(* compress_and_encode: UTF-8, zlib.compress at level 9 with the zlib      *)
(* wrapper sliced off, Base64.  Bytes are integers 0..255, bit strings are *)
(* sequences of 0 and 1 in the order DEFLATE (RFC 1951) packs them.        *)

\* characters of the texts enumerated; "é" is U+00E9, outside ASCII
CodecChars == {"a", "<", ">", "é"}

\* str.encode('utf-8') of one character
Utf8Char(c) ==
    CASE c = "a" -> <<97>>
      [] c = "<" -> <<60>>
      [] c = ">" -> <<62>>
      [] c = "é" -> <<195, 169>>

RECURSIVE Utf8Encode(_)
Utf8Encode(text) ==
    IF text = <<>> THEN <<>> ELSE Utf8Char(Head(text)) \o Utf8Encode(Tail(text))

\* the n low bits of v, most significant first (Huffman codes)
RECURSIVE MsbBits(_, _)
MsbBits(v, n) ==
    IF n = 0 THEN <<>> ELSE Append(MsbBits(v \div 2, n - 1), v % 2)

\* the n low bits of v, least significant first (headers and extra bits)
RECURSIVE LsbBits(_, _)
LsbBits(v, n) ==
    IF n = 0 THEN <<>> ELSE <<v % 2>> \o LsbBits(v \div 2, n - 1)

\* shortest and longest match, and farthest distance, of the LZ77 tokens
\* modelled: the lengths and distances DEFLATE codes without or with one
\* extra bit
ShortestMatch == 3
LongestMatch == 10
FarthestMatch == 8

Literal(b) == [len |-> 0, dist |-> 0, lit |-> b]
Match(l, d) == [len |-> l, dist |-> d, lit |-> 0]

\* whether the l bytes from data[pos] repeat the bytes d positions back
Repeats(data, pos, l, d) ==
    /\ d < pos
    /\ pos + l - 1 <= Len(data)
    /\ \A k \in 0..(l - 1) : data[pos + k] = data[pos + k - d]

\* every LZ77 parse of data[pos..]: which of them the compressor picks is
\* decided inside zlib, so each is a possible outcome
RECURSIVE Lz77Parses(_, _)
Lz77Parses(data, pos) ==
    IF pos > Len(data) THEN {<<>>}
    ELSE {<<Literal(data[pos])>> \o rest : rest \in Lz77Parses(data, pos + 1)}
         \cup UNION {{<<Match(m[1], m[2])>> \o rest :
                         rest \in Lz77Parses(data, pos + m[1])} :
                     m \in {x \in (ShortestMatch..LongestMatch) \X (1..FarthestMatch) :
                               Repeats(data, pos, x[1], x[2])}}

\* fixed Huffman code of a literal/length symbol (RFC 1951, 3.2.6)
LitLenCode(sym) ==
    IF sym <= 143 THEN MsbBits(48 + sym, 8)
    ELSE IF sym <= 255 THEN MsbBits(400 + (sym - 144), 9)
    ELSE IF sym <= 279 THEN MsbBits(sym - 256, 7)
    ELSE MsbBits(192 + (sym - 280), 8)

EndOfBlock == 256

\* lengths 3..10 are the symbols 257..264, without extra bits
LengthCode(l) == LitLenCode(254 + l)

\* distances 1..4 are the codes 0..3; 5..6 and 7..8 are the codes 4 and 5
\* with one extra bit
DistCode(d) ==
    IF d <= 4 THEN MsbBits(d - 1, 5)
    ELSE IF d <= 6 THEN MsbBits(4, 5) \o LsbBits(d - 5, 1)
    ELSE MsbBits(5, 5) \o LsbBits(d - 7, 1)

TokenBits(t) ==
    IF t.len = 0 THEN LitLenCode(t.lit) ELSE LengthCode(t.len) \o DistCode(t.dist)

RECURSIVE TokensBits(_)
TokensBits(tokens) ==
    IF tokens = <<>> THEN <<>>
    ELSE TokenBits(Head(tokens)) \o TokensBits(Tail(tokens))

\* one final block (BFINAL = 1) with fixed Huffman codes (BTYPE = 01)
FixedBlock(tokens) ==
    LsbBits(1, 1) \o LsbBits(1, 2) \o TokensBits(tokens) \o LitLenCode(EndOfBlock)

\* bits to bytes, least significant bit first, the last byte padded with 0
RECURSIVE PackBytes(_)
PackBytes(bits) ==
    IF bits = <<>> THEN <<>>
    ELSE IF Len(bits) < 8 THEN PackBytes(Append(bits, 0))
    ELSE <<bits[1] + 2 * bits[2] + 4 * bits[3] + 8 * bits[4] + 16 * bits[5]
            + 32 * bits[6] + 64 * bits[7] + 128 * bits[8]>>
         \o PackBytes(SubSeq(bits, 9, Len(bits)))

AdlerMod == 65521

RECURSIVE AdlerSums(_)
AdlerSums(data) ==
    IF data = <<>> THEN [a |-> 1, b |-> 0]
    ELSE LET prev == AdlerSums(SubSeq(data, 1, Len(data) - 1))
             a    == (prev.a + data[Len(data)]) % AdlerMod
         IN  [a |-> a, b |-> (prev.b + a) % AdlerMod]

\* the ADLER32 checksum b * 65536 + a as four bytes, big-endian
Adler32(data) ==
    LET s == AdlerSums(data)
    IN  <<s.b \div 256, s.b % 256, s.a \div 256, s.a % 256>>

\* CMF = 0x78 (deflate, 32K window), FLG = 0xDA (level 9, no dictionary)
ZlibHeader == <<120, 218>>

\* zlib.compress(data, level=9): header, DEFLATE stream, ADLER32 trailer
ZlibCompress(data) ==
    {ZlibHeader \o PackBytes(FixedBlock(tokens)) \o Adler32(data) :
        tokens \in Lz77Parses(data, 1)}

\* the slice [0:-4]
SliceTrailerOnly(z) == SubSeq(z, 1, Len(z) - 4)

\* the slice [2:-4]
Slice(z) == SubSeq(z, 3, Len(z) - 4)

Base64Alphabet ==
    <<"A", "B", "C", "D", "E", "F", "G", "H", "I", "J", "K", "L", "M",
      "N", "O", "P", "Q", "R", "S", "T", "U", "V", "W", "X", "Y", "Z",
      "a", "b", "c", "d", "e", "f", "g", "h", "i", "j", "k", "l", "m",
      "n", "o", "p", "q", "r", "s", "t", "u", "v", "w", "x", "y", "z",
      "0", "1", "2", "3", "4", "5", "6", "7", "8", "9", "+", "/">>

Base64Char(sextet) == Base64Alphabet[sextet + 1]

\* base64.b64encode(data).decode('utf-8'): three bytes give four
\* characters, a shorter last group is padded with "="
RECURSIVE B64Encode(_)
B64Encode(data) ==
    IF data = <<>> THEN <<>>
    ELSE IF Len(data) = 1
    THEN <<Base64Char(data[1] \div 4), Base64Char((data[1] % 4) * 16), "=", "=">>
    ELSE IF Len(data) = 2
    THEN <<Base64Char(data[1] \div 4),
           Base64Char((data[1] % 4) * 16 + data[2] \div 16),
           Base64Char((data[2] % 16) * 4), "=">>
    ELSE <<Base64Char(data[1] \div 4),
           Base64Char((data[1] % 4) * 16 + data[2] \div 16),
           Base64Char((data[2] % 16) * 4 + data[3] \div 64),
           Base64Char(data[3] % 64)>>
         \o B64Encode(SubSeq(data, 4, Len(data)))

\* svg_to_drawio.py lines 87-91: the texts the function may return
CompressAndEncode(text) ==
    {B64Encode(Slice(z)) : z \in ZlibCompress(Utf8Encode(text))}

\* a call of compress_and_encode on the text xml_content
CompressAndEncodeCall ==
    /\ pc = "codec_start"
    /\ \E e \in CompressAndEncode(xml_content) : encoded' = e
    /\ pc' = "codec_done"
    /\ UNCHANGED <<convVars, slugVars, genVars, fetchVars, libVars, xml_content>>

InitCodec ==
    /\ pc = "codec_start"
    /\ xml_content \in TextsUpTo(CodecChars, MaxTextLen)
    /\ encoded = <<>>
    /\ ConvIdle
    /\ SlugIdle
    /\ GenIdle
    /\ LibIdle
    /\ FetchIdle

NextCodec == CompressAndEncodeCall

SpecCodec == InitCodec /\ [][NextCodec]_vars

----------------------------------------------------------------------------
(* Properties of the per-icon conversion.                                  *)

\* C1 (as stated): every record create_library_entry returns has width >= 1
\* and height >= 1, and neither exceeds max_size.
C1_PositiveAndBounded ==
    pc = "entry_done" =>
        /\ entry.w >= 1 /\ entry.h >= 1
        /\ entry.w <= max_size /\ entry.h <= max_size

\* C2: for declared dimensions w > 0, h > 0 and max_size > 0, the stored
\* dimensions satisfy max(w', h') <= max_size.
C2_ScaledWithinMax ==
    (pc = "entry_done" /\ dims[1] > 0 /\ dims[2] > 0 /\ max_size > 0)
        => Max(entry.w, entry.h) <= max_size

\* C2 witness: a 23 x 7 icon scaled to max_size 13; the float product
\* 23 * (13 / 23) truncates to 12.
C2_Witness ==
    /\ pc = "entry_done" /\ dims = <<23, 7>> /\ max_size = 13
    /\ entry.w = 12 /\ entry.h = 3

NoDigits(text) == \A i \in 1..Len(text) : text[i] \notin DigitChars

\* an attribute the claim calls missing or malformed
C3_MissingOrMalformed(has, text) ==
    ~has \/ NoDigits(text) \/ DotCount(text) > 1

\* C3 (as stated): get_svg_dimensions returns exactly (48, 48) whenever the
\* markup is unparsable or the width or the height attribute is missing or
\* malformed.
C3_AlwaysBothDefault ==
    (pc = "dims_done"
       /\ (\/ ~svg.parsable
           \/ C3_MissingOrMalformed(svg.hasWidth, svg.width)
           \/ C3_MissingOrMalformed(svg.hasHeight, svg.height)))
        => dims = <<48, 48>>

\* float() raises on the attribute: points but no digit, or two points
C3_Raises(has, text) ==
    has /\ DotCount(text) >= 1 /\ (NoDigits(text) \/ DotCount(text) > 1)

\* the attribute is missing or holds neither a digit nor a point
C3_Blank(has, text) == ~has \/ (NoDigits(text) /\ DotCount(text) = 0)

\* C3 (amended): get_svg_dimensions always returns a pair of naturals; it
\* returns (48, 48) when the markup is unparsable or float() raises on
\* either attribute; otherwise a missing or digit-free attribute makes its
\* own dimension 48 and the other dimension keeps its declared value.
C3_FallbackPerAttribute ==
    pc = "dims_done" =>
        /\ dims \in Nat \X Nat
        /\ (\/ ~svg.parsable
            \/ C3_Raises(svg.hasWidth, svg.width)
            \/ C3_Raises(svg.hasHeight, svg.height)) => dims = <<48, 48>>
        /\ (/\ svg.parsable
            /\ ~C3_Raises(svg.hasWidth, svg.width)
            /\ ~C3_Raises(svg.hasHeight, svg.height)) =>
              /\ dims[1] = IF C3_Blank(svg.hasWidth, svg.width) THEN 48
                           ELSE DecimalValue(IntegerPart(StripUnits(svg.width)))
              /\ dims[2] = IF C3_Blank(svg.hasHeight, svg.height) THEN 48
                           ELSE DecimalValue(IntegerPart(StripUnits(svg.height)))

\* C3 witness: no width attribute next to height="9" gives (48, 9).
C3_Witness ==
    /\ pc = "dims_done" /\ svg.parsable /\ ~svg.hasWidth
    /\ svg.hasHeight /\ svg.height = <<"9">> /\ dims = <<48, 9>>

----------------------------------------------------------------------------
(* Properties of _safe_filename.                                           *)

Punctuation == {"-", "&", "+", "!"}

OnlyOf(text, chars) == \A i \in 1..Len(text) : text[i] \in chars

\* C10 (as stated): _safe_filename never returns an empty string, and a name
\* that is empty or only punctuation, '&' and '+' included, gives "category".
C10_PunctuationGivesFallback ==
    pc = "slug_done" =>
        /\ slug # <<>>
        /\ OnlyOf(name, Punctuation) => slug = FallbackSlug

\* C10 (amended): _safe_filename never returns an empty string; a name that
\* is empty or only punctuation other than '&' and '+' gives "category";
\* a punctuation-only name holding '&' or '+' gives a slug that starts with
\* "and" instead.
C10_FallbackExceptAnd ==
    pc = "slug_done" =>
        /\ slug # <<>>
        /\ OnlyOf(name, Punctuation \ {"&", "+"}) => slug = FallbackSlug
        /\ (OnlyOf(name, Punctuation) /\ ~OnlyOf(name, Punctuation \ {"&", "+"}))
              => (Len(slug) >= 3 /\ SubSeq(slug, 1, 3) = And)

\* C10 witness: the name "!-" has been slugged to "category".
C10_Witness ==
    pc = "slug_done" /\ name = <<"!", "-">> /\ slug = FallbackSlug

----------------------------------------------------------------------------
(* Properties of generate_libraries and convert_svg_folder_to_library.     *)

Successful(files) == SelectSeq(files, LAMBDA f : f.readable)

EntriesExpected(files) ==
    [i \in 1..Len(Successful(files)) |-> EntryOfFile(Successful(files)[i])]

\* C4: a failing icon is left out and every other icon of the category (or
\* folder) is still converted: the entry list is the subsequence of the
\* files whose conversion succeeded, in order, one entry per file.
C4_EntriesAreSuccessfulSubsequence ==
    /\ (pc \in {"gen_running", "gen_done"} /\ seen # <<>>)
          => entries = EntriesExpected(seen[Len(seen)].svg_files)
    /\ pc = "folder_done" => entries = EntriesExpected(folder)

\* C4 witness: a category whose first icon failed and whose second icon was
\* still converted.
C4_Witness ==
    /\ pc = "gen_running" /\ seen # <<>>
    /\ LET files == seen[Len(seen)].svg_files
       IN  /\ Len(files) = 2
           /\ ~files[1].readable /\ files[2].readable
           /\ entries = <<EntryOfFile(files[2])>>

\* C5 (as stated): no document with zero icon records is ever written.
C5_NoEmptyDocument == \A path \in DOMAIN disk : disk[path] # <<>>

DistinctNames ==
    \A i, j \in 1..Len(seen) : i # j => seen[i].name # seen[j].name

\* C6 (as stated): when the categories' names are pairwise distinct, every
\* category with a converted icon has its own document: the document at its
\* path holds its records, and stats.files names no path twice.
C6_OneDocumentPerCategory ==
    (pc \in {"gen_running", "gen_done"} /\ DistinctNames) =>
        /\ \A i \in 1..Len(seen) :
              Successful(seen[i].svg_files) # <<>> =>
                /\ SafeFilename(seen[i].name) \in DOMAIN disk
                /\ disk[SafeFilename(seen[i].name)]
                     = EntriesExpected(seen[i].svg_files)
        /\ \A i, j \in 1..Len(stats.files) :
              i # j => stats.files[i] # stats.files[j]

----------------------------------------------------------------------------
(* Properties of the fetchers' get_categories.                             *)

Range(s) == {s[i] : i \in 1..Len(s)}

\* the leaf directories: those holding an icon file directly
LeafDirs == {d \in AllDirs(tree) : GlobSvg(tree, d) # {}}

\* the leaf directories' relative paths truncated to d + 1 components
AncestorsAt(d) ==
    {SubSeq(p, 1, d + 1) : p \in {x \in LeafDirs : Len(x) > d}}

\* the depths with more than one distinct ancestor
GroupingDepths ==
    {d \in 0..Cardinality(tree.dirs) : Cardinality(AncestorsAt(d)) > 1}

\* the icon files recursively under a directory
IconsUnder(a) == {f \in RglobSvg(tree, Root) : IsPrefix(a, f)}

FabricDone == pc = "cats_done" /\ fetched /\ fetcher = "fabric"

\* C7: on a tree whose icon files have at least two parent directories,
\* with d the shallowest depth that has more than one distinct ancestor,
\* FabricFetcher.get_categories yields exactly one category per depth-d
\* ancestor, holding exactly the icon files recursively under it.
C7_OneCategoryPerAncestor ==
    (FabricDone /\ Cardinality(LeafDirs) >= 2 /\ GroupingDepths # {}) =>
        LET d == CHOOSE x \in GroupingDepths : \A y \in GroupingDepths : x <= y
        IN  /\ outcome = "ok"
            /\ Len(cats) = Cardinality(AncestorsAt(d))
            /\ \A a \in AncestorsAt(d) :
                  \E i \in 1..Len(cats) :
                      /\ cats[i].name = <<CleanName(LastPart(a))>>
                      /\ Range(cats[i].svg_files) = IconsUnder(a)
                      /\ Len(cats[i].svg_files) = Cardinality(IconsUnder(a))

\* C7 witness: A/C and A/D-x hold the icons under the single top-level A;
\* the categories are C and "D x", not one A bucket.
C7_Witness ==
    /\ FabricDone /\ LeafDirs = {<<"A", "C">>, <<"A", "D-x">>}
    /\ svg_root = <<"A">>
    /\ Len(cats) = 2
    /\ cats[1].name = <<"C">> /\ cats[2].name = <<"D x">>

\* C8 (as stated): when all icon files share one immediate parent
\* directory, get_categories yields exactly one category and it holds every
\* icon file, whatever else that directory contains.
C8_FlatGivesOneCategory ==
    (FabricDone /\ Cardinality(LeafDirs) = 1) =>
        /\ outcome = "ok"
        /\ Len(cats) = 1
        /\ Range(cats[1].svg_files) = RglobSvg(tree, Root)

\* C9 (as stated): get_categories of every fetcher fails with an error on a
\* fetched tree without any icon file; it never ends normally.
C9_NoIconsIsAnError ==
    (pc = "cats_done" /\ fetched /\ RglobSvg(tree, Root) = {})
        => outcome = "error"

----------------------------------------------------------------------------
(* Properties of create_library_xml.                                       *)

CharAt(s, i) == IF i \in 1..Len(s) THEN s[i] ELSE ""

NoParse == [ok |-> FALSE, val |-> <<>>, next |-> 0]

\* reads a JSON string whose opening quote is before s[i]
RECURSIVE ScanString(_, _, _)
ScanString(s, i, acc) ==
    IF i > Len(s) THEN NoParse
    ELSE IF s[i] = "\"" THEN [ok |-> TRUE, val |-> acc, next |-> i + 1]
    ELSE IF s[i] = "\\" /\ i < Len(s)
         THEN ScanString(s, i + 2, Append(acc, s[i + 1]))
    ELSE ScanString(s, i + 1, Append(acc, s[i]))

\* reads the digits from s[i] on
RECURSIVE ScanInt(_, _, _)
ScanInt(s, i, acc) ==
    IF CharAt(s, i) \in DigitChars
    THEN ScanInt(s, i + 1, 10 * acc + DigitVal(s[i]))
    ELSE [ok |-> TRUE, val |-> acc, next |-> i]

\* reads the value of the member named key at s[i]
ReadValue(s, i, key) ==
    IF CharAt(s, i) = "\""
    THEN LET r == ScanString(s, i + 1, <<>>)
         IN  [ok |-> r.ok, val |-> StrItem(key, r.val), next |-> r.next]
    ELSE IF CharAt(s, i) \in DigitChars
    THEN LET r == ScanInt(s, i, 0)
         IN  [ok |-> TRUE, val |-> IntItem(key, r.val), next |-> r.next]
    ELSE NoParse

\* reads "key":value members up to the closing brace
RECURSIVE ReadMembers(_, _, _)
ReadMembers(s, i, acc) ==
    IF CharAt(s, i) # "\"" THEN NoParse
    ELSE LET k == ScanString(s, i + 1, <<>>)
         IN  IF ~k.ok \/ CharAt(s, k.next) # ":" THEN NoParse
             ELSE LET v == ReadValue(s, k.next + 1, k.val)
                  IN  IF ~v.ok THEN NoParse
                      ELSE IF CharAt(s, v.next) = ","
                      THEN ReadMembers(s, v.next + 1, Append(acc, v.val))
                      ELSE IF CharAt(s, v.next) = "}"
                      THEN [ok |-> TRUE, val |-> Append(acc, v.val),
                            next |-> v.next + 1]
                      ELSE NoParse

\* reads {...} objects up to the closing bracket
RECURSIVE ReadObjects(_, _, _)
ReadObjects(s, i, acc) ==
    IF CharAt(s, i) # "{" THEN NoParse
    ELSE LET o == ReadMembers(s, i + 1, <<>>)
         IN  IF ~o.ok THEN NoParse
             ELSE IF CharAt(s, o.next) = ","
             THEN ReadObjects(s, o.next + 1, Append(acc, o.val))
             ELSE IF CharAt(s, o.next) = "]"
             THEN [ok |-> TRUE, val |-> Append(acc, o.val), next |-> o.next + 1]
             ELSE NoParse

\* reads a whole JSON array of objects; val is the objects in array order,
\* each as its members in the order they are written
ReadArray(s) ==
    IF CharAt(s, 1) # "[" THEN NoParse
    ELSE IF CharAt(s, 2) = "]" THEN [ok |-> TRUE, val |-> <<>>, next |-> 3]
    ELSE ReadObjects(s, 2, <<>>)

KeysAscending(items) ==
    \A i \in 1..(Len(items) - 1) : StrLess(items[i].key, items[i + 1].key)

SameMembers(items, dict) ==
    /\ Len(items) = Len(dict)
    /\ {items[i] : i \in 1..Len(items)} = {dict[i] : i \in 1..Len(dict)}

\* C11: the text create_library_xml returns is one <mxlibrary> element
\* whose content is a JSON array with as many objects as the list has
\* entries; the i-th object holds exactly the members of the i-th entry,
\* written in ascending key order.
C11_RecordOrderPreserved ==
    pc = "library_done" =>
        LET n      == Len(library_xml)
            json   == SubSeq(library_xml, Len(OpenTag) + 1, n - Len(CloseTag))
            parsed == ReadArray(json)
        IN  /\ n >= Len(OpenTag) + Len(CloseTag)
            /\ SubSeq(library_xml, 1, Len(OpenTag)) = OpenTag
            /\ SubSeq(library_xml, n - Len(CloseTag) + 1, n) = CloseTag
            /\ parsed.ok
            /\ parsed.next = Len(json) + 1
            /\ Len(parsed.val) = Len(lib_entries)
            /\ \A i \in 1..Len(lib_entries) :
                   /\ SameMembers(parsed.val[i], lib_entries[i])
                   /\ KeysAscending(parsed.val[i])

\* C11 witness: a list of three entries whose first and last are the same
\* record and whose middle one differs has been serialised.
C11_Witness ==
    /\ pc = "library_done"
    /\ Len(lib_entries) = 3
    /\ lib_entries[1] = lib_entries[3]
    /\ lib_entries[1] # lib_entries[2]
    /\ library_xml # <<>>

----------------------------------------------------------------------------
(* Properties of compress_and_encode.                                      *)

\* what a decoder returns for input it cannot decode
Undecodable == <<-1>>

Base64Index(c) == CHOOSE i \in 0..63 : Base64Alphabet[i + 1] = c

IsBase64Char(c) == \E i \in 1..64 : Base64Alphabet[i] = c

\* Base64 decoding: groups of four characters, "=" padding in the last one
RECURSIVE B64Decode(_)
B64Decode(text) ==
    IF text = <<>> THEN <<>>
    ELSE IF Len(text) < 4 \/ ~IsBase64Char(text[1]) \/ ~IsBase64Char(text[2])
    THEN Undecodable
    ELSE LET c1 == Base64Index(text[1])
             c2 == Base64Index(text[2])
             b1 == c1 * 4 + c2 \div 16
         IN  IF text[3] = "=" /\ text[4] = "=" /\ Len(text) = 4
             THEN <<b1>>
             ELSE IF ~IsBase64Char(text[3]) THEN Undecodable
             ELSE LET c3 == Base64Index(text[3])
                      b2 == (c2 % 16) * 16 + c3 \div 4
                  IN  IF text[4] = "=" /\ Len(text) = 4
                      THEN <<b1, b2>>
                      ELSE IF ~IsBase64Char(text[4]) THEN Undecodable
                      ELSE LET rest == B64Decode(SubSeq(text, 5, Len(text)))
                           IN  IF rest = Undecodable THEN Undecodable
                               ELSE <<b1, b2, (c3 % 4) * 64 + Base64Index(text[4])>>
                                    \o rest

\* bytes to bits, least significant bit of each byte first
RECURSIVE UnpackBits(_)
UnpackBits(data) ==
    IF data = <<>> THEN <<>>
    ELSE LsbBits(Head(data), 8) \o UnpackBits(Tail(data))

\* the number whose n bits, most significant first, start at bits[p]
RECURSIVE MsbValue(_, _, _)
MsbValue(bits, p, n) ==
    IF n = 0 THEN 0
    ELSE 2 * MsbValue(bits, p, n - 1) + bits[p + n - 1]

\* appends l bytes, each a copy of the byte d positions before the end
RECURSIVE CopyMatch(_, _, _)
CopyMatch(out, d, l) ==
    IF l = 0 THEN out
    ELSE CopyMatch(Append(out, out[Len(out) + 1 - d]), d, l - 1)

\* only padding is left from bits[p] on: fewer than eight bits, all 0
OnlyPadding(bits, p) ==
    /\ Len(bits) - p + 1 < 8
    /\ \A i \in p..Len(bits) : bits[i] = 0

\* decodes fixed-Huffman symbols from bits[p] on, up to the end of block
RECURSIVE InflateFixed(_, _, _)
InflateFixed(bits, p, out) ==
    IF p + 6 > Len(bits) THEN Undecodable
    ELSE LET v7 == MsbValue(bits, p, 7)
         IN  IF v7 = 0
             THEN IF OnlyPadding(bits, p + 7) THEN out ELSE Undecodable
             ELSE IF v7 <= 8
             THEN \* a length 3..10, then a five-bit distance code
                  IF p + 11 > Len(bits) THEN Undecodable
                  ELSE LET l  == v7 + 2
                           dc == MsbValue(bits, p + 7, 5)
                       IN  IF dc <= 3
                           THEN IF dc + 1 > Len(out) THEN Undecodable
                                ELSE InflateFixed(bits, p + 12,
                                                  CopyMatch(out, dc + 1, l))
                           ELSE IF dc <= 5 /\ p + 12 <= Len(bits)
                           THEN LET d == 5 + 2 * (dc - 4) + bits[p + 12]
                                IN  IF d > Len(out) THEN Undecodable
                                    ELSE InflateFixed(bits, p + 13,
                                                      CopyMatch(out, d, l))
                           ELSE Undecodable
             ELSE IF v7 <= 23 \/ p + 7 > Len(bits) THEN Undecodable
             ELSE LET v8 == MsbValue(bits, p, 8)
                  IN  IF v8 <= 191
                      THEN InflateFixed(bits, p + 8, Append(out, v8 - 48))
                      ELSE IF v8 <= 199 \/ p + 8 > Len(bits) THEN Undecodable
                      ELSE InflateFixed(bits, p + 9,
                                        Append(out, MsbValue(bits, p, 9) - 256))

\* raw inflate of a stream made of one final fixed-Huffman block
RawInflate(data) ==
    LET bits == UnpackBits(data)
    IN  IF data = Undecodable \/ Len(bits) < 3 THEN Undecodable
        ELSE IF <<bits[1], bits[2], bits[3]>> # <<1, 1, 0>> THEN Undecodable
        ELSE InflateFixed(bits, 4, <<>>)

NotText == <<"undecodable">>

\* bytes.decode('utf-8') over the characters enumerated
RECURSIVE Utf8Decode(_)
Utf8Decode(data) ==
    IF data = <<>> THEN <<>>
    ELSE IF data = Undecodable THEN NotText
    ELSE LET one == {c \in CodecChars : Utf8Char(c) = SubSeq(data, 1, 1)}
             two == IF Len(data) < 2 THEN {}
                    ELSE {c \in CodecChars : Utf8Char(c) = SubSeq(data, 1, 2)}
         IN  IF one # {}
             THEN LET rest == Utf8Decode(Tail(data))
                  IN  IF rest = NotText THEN NotText
                      ELSE <<CHOOSE c \in one : TRUE>> \o rest
             ELSE IF two # {}
             THEN LET rest == Utf8Decode(SubSeq(data, 3, Len(data)))
                  IN  IF rest = NotText THEN NotText
                      ELSE <<CHOOSE c \in two : TRUE>> \o rest
             ELSE NotText

\* C12: Base64-decoding the text compress_and_encode returned and
\* raw-inflating the bytes gives back the UTF-8 bytes of the text it was
\* given, whichever LZ77 parse the compressor chose.
C12_RoundTrip ==
    pc = "codec_done" =>
        Utf8Decode(RawInflate(B64Decode(encoded))) = xml_content

\* C12 witness: the text "ééé" (six UTF-8 bytes) has been encoded to
\* "O7zyMBACAA==", two literals followed by a match of length 4 at
\* distance 2.
C12_Witness ==
    /\ pc = "codec_done"
    /\ xml_content = <<"é", "é", "é">>
    /\ encoded = <<"O", "7", "z", "y", "M", "B", "A", "C", "A", "A", "=", "=">>

----------------------------------------------------------------------------
(* Properties of the stats generate_libraries returns.                     *)

\* the categories seen so far for which at least one icon was converted
RECURSIVE Productive(_)
Productive(categories) ==
    IF categories = <<>> THEN <<>>
    ELSE (IF Successful(Head(categories).svg_files) # <<>>
          THEN <<Head(categories)>> ELSE <<>>)
         \o Productive(Tail(categories))

RECURSIVE ConvertedIcons(_)
ConvertedIcons(categories) ==
    IF categories = <<>> THEN 0
    ELSE Len(Successful(Head(categories).svg_files))
         + ConvertedIcons(Tail(categories))

\* C13: at every point of generate_libraries, stats.categories equals
\* len(stats.files) and the number of categories processed so far with at
\* least one converted icon, stats.icons is the number of icons converted
\* over them, and stats.files lists exactly those categories' paths in
\* order; so a category without a converted icon changes nothing in stats.
C13_ManifestConsistent ==
    pc \in {"gen_running", "gen_done"} =>
        LET productive == Productive(seen)
        IN  /\ stats.categories = Len(stats.files)
            /\ stats.categories = Len(productive)
            /\ stats.icons = ConvertedIcons(seen)
            /\ stats.files
                 = [i \in 1..Len(productive) |-> SafeFilename(productive[i].name)]

\* C13 witness: the run has ended after a category with a converted icon
\* and a category whose icons all failed; stats counts one category.
C13_Witness ==
    /\ pc = "gen_done"
    /\ Len(seen) = 2
    /\ Successful(seen[1].svg_files) # <<>>
    /\ Successful(seen[2].svg_files) = <<>>
    /\ stats.categories = 1
    /\ stats.icons = Len(Successful(seen[1].svg_files))

----------------------------------------------------------------------------
(* Properties of FabricFetcher.get_categories: fallback and coverage.      *)

\* C14 (as stated): when the icon files have at least two parent
\* directories and no depth has more than one distinct ancestor (the leaf
\* directories lie on one chain, the root possibly among them),
\* get_categories yields exactly one category and it holds every icon file
\* of the tree.
C14_ChainGivesOneCategory ==
    (FabricDone /\ Cardinality(LeafDirs) >= 2 /\ GroupingDepths = {}) =>
        /\ outcome = "ok"
        /\ Len(cats) = 1
        /\ Range(cats[1].svg_files) = RglobSvg(tree, Root)

\* the categories an icon file appears in
CategoriesHolding(f) == {i \in 1..Len(cats) : f \in Range(cats[i].svg_files)}

\* C15 (as stated): on a tree with at least one icon file, every icon file
\* under the root appears in exactly one category get_categories yields.
C15_CategoriesPartitionIcons ==
    (FabricDone /\ RglobSvg(tree, Root) # {}) =>
        /\ outcome = "ok"
        /\ \A f \in RglobSvg(tree, Root) : Cardinality(CategoriesHolding(f)) = 1

----------------------------------------------------------------------------
(* Properties of the scaling step against integer arithmetic.              *)

\* C16 (as stated): with m = max(w, h), the scaling step yields
\* (floor(w * max_size / m), floor(h * max_size / m)) when w or h exceeds
\* max_size, so that the larger dimension becomes exactly max_size; it
\* yields (w, h) unchanged otherwise; and applying the step to its own
\* result changes nothing.
C16_ScalerReference ==
    pc = "entry_done" =>
        LET w == dims[1]
            h == dims[2]
            m == Max(w, h)
        IN  /\ (w > max_size \/ h > max_size) =>
                  /\ entry.w = (w * max_size) \div m
                  /\ entry.h = (h * max_size) \div m
                  /\ Max(entry.w, entry.h) = max_size
            /\ ~(w > max_size \/ h > max_size) =>
                  (entry.w = w /\ entry.h = h)
            /\ ScaleDown(entry.w, entry.h, max_size) = <<entry.w, entry.h>>

----------------------------------------------------------------------------
(* Properties of FabricFetcher._find_svg_root.                             *)

\* C17: when the shallowest depth d with more than one distinct ancestor
\* is at least 1, all ancestors collected at depth d have the same parent
\* directory, and that parent is the grouping root returned, whichever
\* element of the set list(dirs_at_depth)[0] happened to be.
C17_AncestorsShareParent ==
    (FabricDone /\ Cardinality(LeafDirs) >= 2
                /\ GroupingDepths # {} /\ 0 \notin GroupingDepths) =>
        LET d == CHOOSE x \in GroupingDepths : \A y \in GroupingDepths : x <= y
        IN  /\ outcome = "ok"
            /\ \A a, b \in AncestorsAt(d) : Parent(a) = Parent(b)
            /\ \A a \in AncestorsAt(d) : svg_root = Parent(a)

\* C17 witness: the icons sit in A/C/E, A/C/F and A/C; depth 2 is the
\* shallowest with two ancestors and the grouping root is A/C.
C17_Witness ==
    /\ FabricDone
    /\ SvgParents(tree) = {<<"A", "C">>, <<"A", "C", "E">>, <<"A", "C", "F">>}
    /\ svg_root = <<"A", "C">>
    /\ outcome = "ok"

====
